---- MODULE Spec2Model ----
(***************************************************************************)
(* Model of the Sakura server-list service (src/src/services/serverList.ts) *)
(* and of the application state that holds the user's server list.         *)
(*                                                                         *)
(* The module also models MediaGrid with its media cache                   *)
(* (src/src/components/MediaGrid.tsx) and the image upload of              *)
(* ProfileEditForm (src/src/components/ProfileEditForm.tsx).               *)
(*                                                                         *)
(* The specifications of the module:                                       *)
(*   Spec         the list mutations addServer / removeServer /             *)
(*                reorderServers on the list the application holds;         *)
(*   SpecResolve  the two-phase lookup getUserServerList;                   *)
(*   SpecRelays   the choice of publish relays                              *)
(*                (setPublishRelaysFromUserList and the two setters);       *)
(*   SpecPublish  every operation that signs and publishes a list;          *)
(*   SpecMedia    MediaGrid: fetches, deletes, mirror refresh;              *)
(*   SpecDelete   deleteBlobWithFallback on its own;                        *)
(*   SpecUpload   ProfileEditForm: handleImageUpload;                       *)
(*   SpecList     listBlobs over the servers of a list;                     *)
(*   SpecSummary  the redundancy figure of MediaGrid;                       *)
(*   SpecRelayPublish  publications between changes of the relay sets;      *)
(*   SpecProfile  ProfileModal with useUserProfile                          *)
(*                (src/src/components/ProfileModal.tsx,                     *)
(*                src/src/hooks/useUserProfile.ts).                         *)
(***************************************************************************)
EXTENDS Naturals, Integers, Sequences, FiniteSets, TLC

\* ------------------------------------------------------------------ bounds
\* longest server list the model lets addServer build
MaxServers == 2
\* longest candidate order handed to reorderServers
MaxOrder == 2
\* timestamps (created_at) range over 1..MaxTime
MaxTime == 2
\* most events one relay query returns
MaxEvents == 2

VARIABLES
    heap,               \* object store: the UserServerList objects alive
    userServerList,     \* the application's current list (a reference)
    call,               \* the last mutation call and what it did
    _publishRelayUrls,  \* ServerListService._publishRelayUrls
    _defaultRelayUrls,  \* ServerListService._defaultRelayUrls
    resolve,            \* the last getUserServerList call and what it did
    relayCall,          \* the last setPublishRelaysFromUserList call
    cache,              \* useMediaCache: the media cache MediaGrid reads
    grid,               \* MediaGrid: its handlers in progress
    remote,             \* the last deleteBlobWithFallback call
    form,               \* ProfileEditForm: its upload state
    listing,            \* the last listBlobs call
    summary,            \* the media of MediaGrid's redundancy summary
    hook,               \* useUserProfile: its state and calls in flight
    modal               \* ProfileModal: its state

listVars == <<heap, userServerList, call>>
relayVars == <<_publishRelayUrls, _defaultRelayUrls>>
serviceVars == <<listVars, relayVars, resolve, relayCall>>
moreVars == <<listing, summary, hook, modal>>
uiVars == <<cache, grid, remote, form, moreVars>>
vars == <<heap, userServerList, call, _publishRelayUrls, _defaultRelayUrls,
          resolve, relayCall, cache, grid, remote, form, listing, summary,
          hook, modal>>

\* ------------------------------------------------------------ value domains
Hosts == {"a", "b"}
Times == 1..MaxTime
\* Date.now() when an event is created: no earlier than any timestamp seen
Now == MaxTime
Pubkeys == {"pk1", "pk2"}

\* A URL string, by the parts the validation looks at.
SecureUrl(h) == [wellFormed |-> TRUE, scheme |-> "https:", host |-> h]
InsecureUrl == [wellFormed |-> TRUE, scheme |-> "http:", host |-> "a"]
MalformedUrl == [wellFormed |-> FALSE, scheme |-> "", host |-> ""]
SecureUrls == {SecureUrl(h) : h \in Hosts}
Urls == SecureUrls \cup {InsecureUrl, MalformedUrl}
\* the URLs a candidate order is made of: members and non-members of the
\* list, and an invalid one
OrderUrls == SecureUrls \cup {InsecureUrl}

\* all sequences over S of length lo..hi
SeqsOf(S, lo, hi) == UNION {[1..n -> S] : n \in lo..hi}
Range(s) == {s[i] : i \in 1..Len(s)}
Distinct(s) == \A i, j \in 1..Len(s) : i # j => s[i] # s[j]
\* Array.prototype.includes
includes(s, x) == \E i \in 1..Len(s) : s[i] = x

\* ------------------------------------------------- utils/serverList helpers
\* validateServerUrl: rejects malformed URLs and non-secure schemes
validateServerUrl(url) ==
    [valid |-> url.wellFormed /\ url.scheme = "https:"]

IsValidUrl(url) == validateServerUrl(url).valid

\* createServerListEvent: the kind 10063 event, one "server" tag per URL
createServerListEvent(servers, pubkey, now) ==
    [kind |-> 10063, pubkey |-> pubkey, created_at |-> now,
     tags |-> [i \in 1..Len(servers) |-> <<"server", servers[i]>>],
     sig |-> FALSE]

\* signEventWithMethod, when the signer accepts
signEventWithMethod(event) == [event EXCEPT !.sig = TRUE]

IsServerTag(tag) == tag[1] = "server"

\* parseServerListEvent: the ordered URL sequence of the event's server tags
parseServerListEvent(event) ==
    LET tags == SelectSeq(event.tags, IsServerTag)
    IN  [servers |-> [i \in 1..Len(tags) |-> tags[i][2]],
         pubkey |-> event.pubkey, created_at |-> event.created_at]

\* ------------------------------------------------------------ the service
\* What the collaborators do during one call: the Signer rejects, the
\* Discovery publish fails, or both succeed.
Envs == {"ok", "signFails", "publishFails"}
NoList == [servers |-> <<>>, pubkey |-> "", created_at |-> 0]
NoEvent == [kind |-> 0, pubkey |-> "", created_at |-> 0, tags |-> <<>>,
            sig |-> FALSE]

\* faulty variant: the custom set is used even when it is empty
publishRelayUrlsCustomOnly(custom, default) == custom

\* get publishRelayUrls
publishRelayUrls(custom, default) ==
    IF Len(custom) > 0 THEN custom ELSE default

\* faulty variant: a rejected signature is retried once and the unsigned
\* event is published all the same
createAndPublishServerListRetrying(servers, pubkey, env) ==
    LET validServers == SelectSeq(servers, IsValidUrl)
        unsignedEvent == createServerListEvent(validServers, pubkey, Now)
        signedEvent == signEventWithMethod(unsignedEvent)
    IN  IF Len(validServers) = 0
        THEN [threw |-> TRUE, error |-> "No valid server URLs provided",
              log |-> <<>>, list |-> NoList, event |-> NoEvent]
        ELSE IF env = "signFails"
        THEN [threw |-> FALSE, error |-> "",
              log |-> <<"sign", "sign", "publish">>,
              list |-> parseServerListEvent(unsignedEvent),
              event |-> unsignedEvent]
        ELSE IF env = "publishFails"
        THEN [threw |-> TRUE, error |-> "publish failed",
              log |-> <<"sign", "publish">>, list |-> NoList,
              event |-> signedEvent]
        ELSE [threw |-> FALSE, error |-> "",
              log |-> <<"sign", "publish">>,
              list |-> parseServerListEvent(signedEvent),
              event |-> signedEvent]

\* createAndPublishServerList: what it returns or throws, the calls it makes
\* to the Signer ("sign") and to Discovery ("publish") in order, and the
\* event it hands to publishToRelays.
createAndPublishServerList(servers, pubkey, env) ==
    LET validServers == SelectSeq(servers, IsValidUrl)
        unsignedEvent == createServerListEvent(validServers, pubkey, Now)
        signOk == env # "signFails"
        publishOk == env # "publishFails"
        signedEvent == signEventWithMethod(unsignedEvent)
    IN  IF Len(validServers) = 0
        THEN [threw |-> TRUE, error |-> "No valid server URLs provided",
              log |-> <<>>, list |-> NoList, event |-> NoEvent]
        ELSE IF ~signOk
        THEN [threw |-> TRUE, error |-> "sign failed",
              log |-> <<"sign">>, list |-> NoList, event |-> NoEvent]
        ELSE IF ~publishOk
        THEN [threw |-> TRUE, error |-> "publish failed",
              log |-> <<"sign", "publish">>, list |-> NoList,
              event |-> signedEvent]
        ELSE [threw |-> FALSE, error |-> "",
              log |-> <<"sign", "publish">>,
              list |-> parseServerListEvent(signedEvent),
              event |-> signedEvent]

\* updateServerList delegates to createAndPublishServerList
updateServerList(servers, pubkey, env) ==
    createAndPublishServerList(servers, pubkey, env)

\* faulty variant: push onto currentList.servers instead of copying it
AddServerArraysInPlace(servers, serverUrl) ==
    [cur |-> Append(servers, serverUrl), upd |-> Append(servers, serverUrl)]

\* addServer line 141: [...currentList.servers, serverUrl] builds a new
\* array (upd) and leaves the array of currentList (cur) as it was.
AddServerArrays(servers, serverUrl) ==
    [cur |-> servers, upd |-> Append(servers, serverUrl)]

\* removeServer line 153: filter returns a new array
RemoveServerArrays(servers, serverUrl) ==
    LET Keep(url) == url # serverUrl
    IN  [cur |-> servers, upd |-> SelectSeq(servers, Keep)]

\* faulty variant: the membership test left out
ReorderKeepsAnyValid(url, servers) == IsValidUrl(url)

\* reorderServers lines 166-168: the candidate order, filtered
ReorderKeeps(url, servers) == includes(servers, url) /\ IsValidUrl(url)

ReorderServerArrays(servers, newOrder) ==
    LET Keep(url) == ReorderKeeps(url, servers)
    IN  [cur |-> servers, upd |-> SelectSeq(newOrder, Keep)]

\* faulty variant: the duplicate test left out
AddServerRejectionNoDuplicateTest(serverUrl, servers) ==
    IF ~validateServerUrl(serverUrl).valid THEN "Invalid server URL" ELSE ""

\* addServer's two rejections, in the order the code tests them
AddServerRejection(serverUrl, servers) ==
    IF ~validateServerUrl(serverUrl).valid THEN "Invalid server URL"
    ELSE IF includes(servers, serverUrl) THEN "Server already in list"
    ELSE ""

NoCall == [op |-> "none", url |-> MalformedUrl, order |-> <<>>, input |-> 0,
           env |-> "ok",
           before |-> NoList, updated |-> FALSE, submitted |-> <<>>,
           outcome |-> "none", error |-> "", log |-> <<>>,
           event |-> NoEvent, publishedTo |-> <<>>, result |-> 0]

\* The slot a new UserServerList object is allocated in: the one the
\* application no longer references.
FreshRef(current) == CHOOSE r \in 1..2 : r # current

\* The part shared by the three mutations: arrays.cur is what the mutation
\* left in currentList.servers, arrays.upd what it hands to updateServerList.
\* On success the caller (ServerManagement -> Settings.onServerListUpdate)
\* replaces the application's list by the returned one.
Mutate(op, url, order, arrays, env) ==
    LET cur == heap[userServerList]
        r == updateServerList(arrays.upd, cur.pubkey, env)
        new == FreshRef(userServerList)
        published == Len(r.log) = 2
    IN  /\ call' = [op |-> op, url |-> url, order |-> order,
                    input |-> userServerList, before |-> cur,
                    env |-> env, updated |-> TRUE, submitted |-> arrays.upd,
                    outcome |-> IF r.threw THEN "error" ELSE "ok",
                    error |-> r.error, log |-> r.log,
                    event |-> r.event,
                    publishedTo |-> IF published
                        THEN publishRelayUrls(_publishRelayUrls, _defaultRelayUrls)
                        ELSE <<>>,
                    result |-> IF r.threw THEN 0 ELSE new]
        /\ heap' = [heap EXCEPT
                      ![userServerList] = [cur EXCEPT !.servers = arrays.cur],
                      ![new] = IF r.threw THEN NoList ELSE r.list]
        /\ userServerList' = IF r.threw THEN userServerList ELSE new

addServer ==
    \E serverUrl \in Urls, env \in Envs :
        LET cur == heap[userServerList]
            why == AddServerRejection(serverUrl, cur.servers)
        IN  /\ why = "" => Len(cur.servers) < MaxServers
            /\ IF why # ""
               THEN /\ call' = [NoCall EXCEPT !.op = "addServer",
                                  !.url = serverUrl,
                                  !.input = userServerList, !.before = cur,
                                  !.env = env,
                                  !.outcome = "error", !.error = why]
                    /\ heap' = [heap EXCEPT ![FreshRef(userServerList)] = NoList]
                    /\ UNCHANGED userServerList
               ELSE Mutate("addServer", serverUrl, <<>>,
                           AddServerArrays(cur.servers, serverUrl),
                           env)
            /\ UNCHANGED <<relayVars, resolve, relayCall, uiVars>>

removeServer ==
    \E serverUrl \in Urls, env \in Envs :
        /\ Mutate("removeServer", serverUrl, <<>>,
                  RemoveServerArrays(heap[userServerList].servers, serverUrl),
                  env)
        /\ UNCHANGED <<relayVars, resolve, relayCall, uiVars>>

reorderServers ==
    \E newOrder \in SeqsOf(OrderUrls, 0, MaxOrder), env \in Envs :
        /\ Mutate("reorderServers", MalformedUrl, newOrder,
                  ReorderServerArrays(heap[userServerList].servers, newOrder),
                  env)
        /\ UNCHANGED <<relayVars, resolve, relayCall, uiVars>>

\* the server lists an application creates its first list from
CreateInputs ==
    {<<>>, <<SecureUrl("a")>>, <<InsecureUrl>>,
     <<SecureUrl("b"), InsecureUrl, SecureUrl("a")>>}

\* createAndPublishServerList called directly with the servers the user
\* chose; the list returned becomes the application's list.
createServerList ==
    \E servers \in CreateInputs, env \in Envs :
        /\ Mutate("createAndPublishServerList", MalformedUrl, servers,
                  [cur |-> heap[userServerList].servers, upd |-> servers],
                  env)
        /\ UNCHANGED <<relayVars, resolve, relayCall, uiVars>>

\* publishServerList lines 180-195: the list is signed and published as it
\* is; nothing is returned.
publishServerListRun(servers, pubkey, env) ==
    LET unsignedEvent == createServerListEvent(servers, pubkey, Now)
        signedEvent == signEventWithMethod(unsignedEvent)
    IN  IF env = "signFails"
        THEN [threw |-> TRUE, error |-> "sign failed",
              log |-> <<"sign">>, event |-> NoEvent]
        ELSE IF env = "publishFails"
        THEN [threw |-> TRUE, error |-> "publish failed",
              log |-> <<"sign", "publish">>, event |-> signedEvent]
        ELSE [threw |-> FALSE, error |-> "",
              log |-> <<"sign", "publish">>, event |-> signedEvent]

publishServerList ==
    \E env \in Envs :
        LET cur == heap[userServerList]
            r == publishServerListRun(cur.servers, cur.pubkey, env)
        IN  /\ call' = [NoCall EXCEPT
                          !.op = "publishServerList",
                          !.input = userServerList, !.before = cur,
                          !.env = env,
                          !.outcome = IF r.threw THEN "error" ELSE "void",
                          !.error = r.error, !.log = r.log,
                          !.event = r.event,
                          !.publishedTo = IF Len(r.log) = 2
                              THEN publishRelayUrls(_publishRelayUrls,
                                                    _defaultRelayUrls)
                              ELSE <<>>]
            /\ heap' = [heap EXCEPT ![FreshRef(userServerList)] = NoList]
            /\ UNCHANGED <<userServerList, relayVars, resolve, relayCall,
                           uiVars>>

\* The six relays the service is constructed with.
DefaultRelayUrls ==
    <<"wss://relay.damus.io", "wss://relay.nostr.band",
      "wss://relay.primal.net", "wss://relay.snort.social",
      "wss://nos.lol", "wss://nostr.oxtr.dev">>

\* ------------------------------------------------------- getUserServerList
UserRelays == {"wss://r1.example", "wss://r2.example"}
\* a relay's metadata: its write flag is true, false or not there
WriteFlags == {"true", "false", "undefined"}

\* what getUserRelayList can answer: an exception, null, or the owner's
\* relay list, its entries in the order Object.keys / Object.entries give
RelayLists ==
    {rl \in SeqsOf([url : UserRelays, write : WriteFlags], 0,
                   Cardinality(UserRelays)) :
        \A i, j \in 1..Len(rl) : i # j => rl[i].url # rl[j].url}
RelayListAnswers ==
    {[threw |-> TRUE, found |-> FALSE, relays |-> <<>>],
     [threw |-> FALSE, found |-> FALSE, relays |-> <<>>]}
    \cup {[threw |-> FALSE, found |-> TRUE, relays |-> rl] : rl \in RelayLists}
NoRelayListAnswer == [threw |-> FALSE, found |-> FALSE, relays |-> <<>>]

\* Object.keys(userRelayList.relays)
RelayKeys(relays) == [i \in 1..Len(relays) |-> relays[i].url]

\* the kind 10063 events relays hold for an owner: one per timestamp
RelayEvent(pubkey, t) ==
    signEventWithMethod(
        createServerListEvent(
            IF t % 2 = 1 THEN <<SecureUrl("a")>>
                         ELSE <<SecureUrl("b"), SecureUrl("a")>>,
            pubkey, t))
\* what queryRelays can answer: an exception (a timeout) or some events
QueryAnswers(pubkey) ==
    {[threw |-> TRUE, events |-> <<>>]}
    \cup {[threw |-> FALSE, events |-> es] :
            es \in SeqsOf({RelayEvent(pubkey, t) : t \in Times}, 0, MaxEvents)}
NoQueryAnswer == [threw |-> FALSE, events |-> <<>>]

\* faulty variant: oldest first
CompareEventsAscending(a, b) == a.created_at - b.created_at

\* the comparator of line 71
CompareEvents(a, b) == b.created_at - a.created_at

\* Array.prototype.sort with that comparator: a stable insertion sort
RECURSIVE InsertSorted(_, _)
InsertSorted(sorted, e) ==
    IF sorted = <<>> THEN <<e>>
    ELSE IF CompareEvents(sorted[Len(sorted)], e) <= 0
         THEN Append(sorted, e)
         ELSE Append(InsertSorted(SubSeq(sorted, 1, Len(sorted) - 1), e),
                     sorted[Len(sorted)])

RECURSIVE SortEvents(_)
SortEvents(events) ==
    IF events = <<>> THEN <<>>
    ELSE InsertSorted(SortEvents(SubSeq(events, 1, Len(events) - 1)),
                      events[Len(events)])

\* faulty variant: the owner's relays are queried whatever the first query found
SecondPhaseAlways(events) == TRUE

\* line 49: the second phase runs only when the first found no event
SecondPhaseNeeded(events) == Len(events) = 0

\* The body of the try block, lines 41-74: the steps taken in order, the
\* relay sets handed to queryRelays, and the value returned or the throw.
getUserServerListTry(default, first, relayList, second, parseThrows) ==
    LET phase2 == ~first.threw /\ SecondPhaseNeeded(first.events)
        asked == phase2
        queried2 == phase2 /\ ~relayList.threw /\ relayList.found
        events == IF queried2 THEN second.events ELSE first.events
        threw == \/ first.threw
                 \/ asked /\ relayList.threw
                 \/ queried2 /\ second.threw
        latestEvent == SortEvents(events)[1]
        parsed == ~threw /\ Len(events) > 0
    IN  [log |-> <<"queryDefault">>
                 \o (IF asked THEN <<"getUserRelayList">> ELSE <<>>)
                 \o (IF queried2 THEN <<"queryUser">> ELSE <<>>)
                 \o (IF parsed THEN <<"parse">> ELSE <<>>),
         queried |-> <<default>>
                 \o (IF queried2 THEN <<RelayKeys(relayList.relays)>>
                                  ELSE <<>>),
         relay |-> IF ~asked THEN "unasked"
                   ELSE IF relayList.threw THEN "threw"
                   ELSE IF relayList.found THEN "found" ELSE "null",
         events |-> IF threw THEN <<>> ELSE events,
         chosen |-> IF parsed THEN latestEvent ELSE NoEvent,
         threw |-> threw \/ (parsed /\ parseThrows),
         list |-> IF parsed /\ ~parseThrows
                  THEN parseServerListEvent(latestEvent) ELSE NoList]

\* faulty variant: no catch: the exception reaches the caller
RethrowOutcome(try) ==
    IF try.threw THEN "raised"
    ELSE IF try.list = NoList THEN "null" ELSE "list"

\* lines 75-78: whatever the try block throws is caught and null returned
CatchOutcome(try) ==
    IF try.threw THEN "null"
    ELSE IF try.list = NoList THEN "null" ELSE "list"

NoResolve == [op |-> "none", pubkey |-> "", first |-> NoQueryAnswer,
              log |-> <<>>, queried |-> <<>>, relay |-> "unasked",
              events |-> <<>>, chosen |-> NoEvent, threw |-> FALSE, returned |-> "none",
              list |-> NoList]

\* the application looks up the list of the logged-in owner
getUserServerList ==
    \E pubkey \in {heap[userServerList].pubkey} :
    \E first \in QueryAnswers(pubkey) :
    \E relayList \in (IF ~first.threw /\ first.events = <<>>
                      THEN {a \in RelayListAnswers :
                               \A i \in 1..Len(a.relays) :
                                   a.relays[i].write = "true"}
                      ELSE {NoRelayListAnswer}) :
    \E second \in (IF relayList.found THEN QueryAnswers(pubkey)
                   ELSE {NoQueryAnswer}) :
    \E parseThrows \in (IF Len(first.events) + Len(second.events) > 0
                        THEN BOOLEAN ELSE {FALSE}) :
        LET try == getUserServerListTry(_defaultRelayUrls, first, relayList,
                                        second, parseThrows)
            returned == CatchOutcome(try)
        IN  /\ resolve' = [op |-> "getUserServerList", pubkey |-> pubkey,
                           first |-> first,
                           log |-> try.log, queried |-> try.queried,
                           relay |-> try.relay,
                           events |-> try.events, chosen |-> try.chosen,
                           threw |-> try.threw, returned |-> returned,
                           list |-> IF returned = "list" THEN try.list
                                    ELSE NoList]
            /\ UNCHANGED <<listVars, relayVars, relayCall, uiVars>>

\* --------------------------------------------------- the publish relays
\* faulty variant: only an explicit write flag counts
IsWriteRelayStrict(metadata) == metadata.write = "true"

\* line 234: metadata.write !== false
IsWriteRelay(metadata) == metadata.write # "false"

\* lines 233-235: the URLs of the entries that pass the filter, in order
WriteRelays(relays) == RelayKeys(SelectSeq(relays, IsWriteRelay))

NoRelayCall == [op |-> "none", answer |-> NoRelayListAnswer,
                urls |-> <<>>, returned |-> FALSE]

setPublishRelaysFromUserList ==
    \E answer \in RelayListAnswers :
        LET writeRelays == WriteRelays(answer.relays)
            set == ~answer.threw /\ answer.found /\ Len(writeRelays) > 0
        IN  /\ _publishRelayUrls' =
                  IF set THEN writeRelays ELSE _publishRelayUrls
            /\ relayCall' = [op |-> "setPublishRelaysFromUserList",
                             answer |-> answer, urls |-> <<>>,
                             returned |-> set]
            /\ UNCHANGED <<listVars, _defaultRelayUrls, resolve, uiVars>>

\* the relay sets the application may configure by hand
CustomRelaySets == {<<>>, <<"wss://r1.example">>}
DefaultRelaySets == {<<>>, <<"wss://nos.lol">>, DefaultRelayUrls}

setPublishRelayUrls ==
    \E urls \in CustomRelaySets :
        /\ _publishRelayUrls' = urls
        /\ relayCall' = [NoRelayCall EXCEPT !.op = "setPublishRelayUrls",
                                            !.urls = urls]
        /\ UNCHANGED <<listVars, _defaultRelayUrls, resolve, uiVars>>

setDefaultRelayUrls ==
    \E urls \in DefaultRelaySets :
        /\ _defaultRelayUrls' = urls
        /\ relayCall' = [NoRelayCall EXCEPT !.op = "setDefaultRelayUrls",
                                            !.urls = urls]
        /\ UNCHANGED <<listVars, _publishRelayUrls, resolve, uiVars>>


\* ================================================= MediaGrid and its cache
\* the content hashes of the user's blobs
Hashes == {"h1", "h2"}

\* the userServerList prop of MediaGrid: null, or a list of servers
NoServerList == [null |-> TRUE, servers |-> <<>>]
GridLists ==
    {NoServerList,
     [null |-> FALSE, servers |-> <<SecureUrl("a")>>],
     [null |-> FALSE, servers |-> <<SecureUrl("a"), SecureUrl("b")>>],
     [null |-> FALSE, servers |-> <<SecureUrl("b"), SecureUrl("a")>>]}

\* faulty variant: the test of the server list is missing
serversUnchecked(list) == TRUE

\* lines 112 and 207: userServerList && userServerList.servers.length > 0
serversConfigured(list) == ~list.null /\ Len(list.servers) > 0

\* a URL as the string the list holds
urlString(url) == <<url.scheme, "//", url.host>>

\* the fingerprint of a list: its URLs joined in order, "," between them
RECURSIVE joinFrom(_, _)
joinFrom(servers, i) ==
    IF i > Len(servers) THEN <<>>
    ELSE IF i = Len(servers) THEN urlString(servers[i])
    ELSE urlString(servers[i]) \o <<",">> \o joinFrom(servers, i + 1)

fingerprint(list) == joinFrom(list.servers, 1)

\* callers of fetchMedia: the server-list effect, loadMedia,
\* handleMirrorSuccess, the catch of deleteMedia
Callers == {"effect", "loadMedia", "mirror", "delete"}

\* useMediaCache before the first fetch
NoCache ==
    [state |-> "EMPTY", media |-> {}, error |-> FALSE, fingerprint |-> <<>>,
     servers |-> <<>>,
     rounds |-> <<>>, tomb |-> {}, delivered |-> {}]

\* faulty variant: a fetch during LOADING starts a listBlobs round of its own
FetchDecisionNoAttach(c, list, force) ==
    IF /\ c.state = "READY"
       /\ c.fingerprint = fingerprint(list)
       /\ ~force
    THEN "cached"
    ELSE "start"

\* fetch(list, force): attach to the round in flight, answer from the
\* cache, or start a listBlobs round
FetchDecision(c, list, force) ==
    IF c.state = "LOADING"
    THEN "attach"
    ELSE IF /\ c.state = "READY"
            /\ c.fingerprint = fingerprint(list)
            /\ ~force
    THEN "cached"
    ELSE "start"

\* the cache after fetchMedia(list, force) was called by `who`; servers is
\* the list the entry (the round) was built for; delivered
\* holds what the callers of a round received in the step that resolved it
fetchMedia(c, list, force, who) ==
    LET d == FetchDecision(c, list, force)
    IN  IF d = "attach"
        THEN [c EXCEPT !.rounds[1].waiters = @ \cup {who},
                       !.delivered = {}]
        ELSE IF d = "cached"
        THEN [c EXCEPT !.delivered = {}]
        ELSE [c EXCEPT
                !.state = "LOADING",
                !.error = FALSE,
                !.delivered = {},
                !.rounds = Append(@, [fingerprint |-> fingerprint(list),
                                      servers |-> list.servers,
                                      waiters |-> {who},
                                      removed |-> {}])]

\* removeMedia(hash): the hash leaves the cached set.  tomb and the rounds'
\* removed sets remember the removal: tomb holds the removed hashes that no
\* round started after their removal has returned.
removeMedia(c, h) ==
    [c EXCEPT
        !.media = @ \ {h},
        !.tomb = @ \cup {h},
        !.delivered = {},
        !.rounds = [i \in DOMAIN @ |-> [@[i] EXCEPT !.removed = @ \cup {h}]]]

\* what listBlobs may return for the servers of a list
ListResults(fp) == IF fp = <<>> THEN {{}} ELSE SUBSET Hashes

\* the cache after its oldest round resolved with the blobs listed
roundSucceeds(c, blobs) ==
    LET r == c.rounds[1]
    IN  [c EXCEPT
            !.state = IF Len(c.rounds) = 1 THEN "READY" ELSE "LOADING",
            !.media = blobs,
            !.error = FALSE,
            !.fingerprint = r.fingerprint,
            !.servers = r.servers,
            !.tomb = @ \ (blobs \ r.removed),
            !.rounds = Tail(@),
            !.delivered = {[who |-> w, ok |-> TRUE, blobs |-> blobs] :
                              w \in r.waiters}]

\* the cache after its oldest round failed: the entry is kept, the error
\* is attached
roundFails(c) ==
    LET r == c.rounds[1]
    IN  [c EXCEPT
            !.state = IF Len(c.rounds) = 1 THEN "STALE" ELSE "LOADING",
            !.error = TRUE,
            !.rounds = Tail(@),
            !.delivered = {[who |-> w, ok |-> FALSE, blobs |-> {}] :
                              w \in r.waiters}]

\* the values MediaGrid reads from the hook (line 20)
loading(c) == c.state = "LOADING"
isStale(c) == c.state = "STALE"
isDataStale(c, list) == c.fingerprint # fingerprint(list)

\* faulty variant: only the age of the entry is looked at
dataIsStaleByAge(c, list) == isStale(c)

\* line 30: isStale || isDataStale(userServerList)
dataIsStale(c, list) == isStale(c) \/ isDataStale(c, list)

\* faulty variant: the grid is rendered whatever the cache reports
ViewAlwaysGrid(c) == "grid"

\* MediaGrid lines 169-194: the spinner while loading, the error panel
\* when an error is set, the grid otherwise
View(c) ==
    IF loading(c) THEN "spinner"
    ELSE IF c.error THEN "error"
    ELSE "grid"

\* the blobs the user sees
ShownMedia(c) == IF View(c) = "grid" THEN c.media ELSE {}

NoGridCall ==
    [op |-> "none", hash |-> "", log |-> <<>>, outcome |-> "",
     fetch |-> "none", confirmed |-> FALSE, signingMethod |-> FALSE]

\* MediaGrid before it is mounted; last is the handler that ran in the
\* latest step, none when the latest step was the cache's own
NoGrid ==
    [mounted |-> FALSE, userServerList |-> NoServerList, pending |-> {},
     mirrorDialogOpen |-> FALSE, last |-> NoGridCall]

\* what the servers answer to a delete request
DeleteAnswers == {"ok", "notFound", "unauthorized", "unreachable"}

\* the answers told apart by deleteMedia: a confirmation, a failure
SettleAnswers == {"ok", "unreachable"}

\* faulty variant: the servers after the first confirmation are asked too
RECURSIVE deleteFromAll(_, _, _)
deleteFromAll(servers, answers, i) ==
    IF i > Len(servers)
    THEN [ok |-> FALSE, contacted |-> <<>>, reasons |-> <<>>]
    ELSE LET rest == deleteFromAll(servers, answers, i + 1)
         IN  [ok |-> rest.ok \/ answers[i] = "ok",
              contacted |-> <<i>> \o rest.contacted,
              reasons |-> IF answers[i] = "ok" THEN rest.reasons
                          ELSE <<[server |-> servers[i],
                                  reason |-> answers[i]]>> \o rest.reasons]

\* deleteBlobWithFallback(hash): the servers are asked in order until one
\* confirms; answers[i] is what servers[i] answers if it is asked.
RECURSIVE deleteFrom(_, _, _)
deleteFrom(servers, answers, i) ==
    IF i > Len(servers)
    THEN [ok |-> FALSE, contacted |-> <<>>, reasons |-> <<>>]
    ELSE IF answers[i] = "ok"
    THEN [ok |-> TRUE, contacted |-> <<i>>, reasons |-> <<>>]
    ELSE LET rest == deleteFrom(servers, answers, i + 1)
         IN  [ok |-> rest.ok,
              contacted |-> <<i>> \o rest.contacted,
              reasons |-> <<[server |-> servers[i], reason |-> answers[i]]>>
                              \o rest.reasons]

deleteBlobWithFallback(servers, answers) ==
    LET r == deleteFrom(servers, answers, 1)
    IN  [outcome |-> IF r.ok THEN "ok" ELSE "TotalFailure",
         contacted |-> r.contacted,
         reasons |-> IF r.ok THEN <<>> ELSE r.reasons]

NoRemote ==
    [called |-> FALSE, hash |-> "", servers |-> <<>>, answers |-> <<>>,
     outcome |-> "", contacted |-> <<>>, reasons |-> <<>>]

\* deleteBlobWithFallback called with a hash and a server list
deleteWithFallback ==
    /\ \E h \in Hashes, servers \in SeqsOf(SecureUrls, 0, MaxServers) :
       \E answers \in [1..Len(servers) -> DeleteAnswers] :
        LET r == deleteBlobWithFallback(servers, answers)
        IN  remote' = [called |-> TRUE, hash |-> h, servers |-> servers,
                       answers |-> answers, outcome |-> r.outcome,
                       contacted |-> r.contacted, reasons |-> r.reasons]
    /\ UNCHANGED <<serviceVars, moreVars, cache, grid,
                   form>>

\* the server-list effect, lines 85-88: fetchMedia(userServerList)
effectFetch(list) ==
    /\ cache' = fetchMedia(cache, list, FALSE, "effect")
    /\ grid' = [grid EXCEPT
                  !.mounted = TRUE,
                  !.userServerList = list,
                  !.last = [NoGridCall EXCEPT
                              !.op = "effect",
                              !.fetch = FetchDecision(cache, list, FALSE)]]

mountMediaGrid ==
    /\ ~grid.mounted
    /\ \E list \in GridLists : effectFetch(list)
    /\ UNCHANGED <<serviceVars, moreVars, remote, form>>

\* the application hands MediaGrid another list
serverListChanged ==
    /\ grid.mounted
    /\ \E list \in GridLists \ {grid.userServerList} : effectFetch(list)
    /\ UNCHANGED <<serviceVars, moreVars, remote, form>>

\* loadMedia, lines 90-92, from the refresh button or Try Again
loadMedia ==
    /\ grid.mounted
    /\ View(cache) \in {"grid", "error"}
    /\ cache' = fetchMedia(cache, grid.userServerList, TRUE, "loadMedia")
    /\ grid' = [grid EXCEPT
                  !.last = [NoGridCall EXCEPT
                              !.op = "loadMedia",
                              !.fetch = FetchDecision(cache,
                                            grid.userServerList, TRUE)]]
    /\ UNCHANGED <<serviceVars, moreVars, remote, form>>

\* faulty variant: the catch block does not refresh
deleteMediaCallsNoRefresh(hasServers, settled) ==
    IF ~hasServers
    THEN <<"removeMedia">>
    ELSE <<"removeMedia", "deleteBlobWithFallback">>

\* the calls deleteMedia makes, lines 107-131, up to the await (settled =
\* "pending") or to its end
deleteMediaCalls(hasServers, settled) ==
    IF ~hasServers
    THEN <<"removeMedia", "loadMedia">>
    ELSE IF settled = "TotalFailure"
    THEN <<"removeMedia", "deleteBlobWithFallback", "loadMedia">>
    ELSE <<"removeMedia", "deleteBlobWithFallback">>

\* the cache after the calls of `log` that follow the await
afterDelete(c, log, list) ==
    IF log # <<>> /\ log[Len(log)] = "loadMedia"
    THEN fetchMedia(c, list, TRUE, "delete")
    ELSE c

fetchOfDelete(c, log, list) ==
    IF log # <<>> /\ log[Len(log)] = "loadMedia"
    THEN FetchDecision(c, list, TRUE)
    ELSE "none"

\* faulty variant: the lookup of the item, line 105, is not a guard
deleteMediaProceedsUnfound(confirmed, signingMethod, found) ==
    confirmed /\ signingMethod

\* the three guards of deleteMedia, lines 95-105: the confirm dialog, the
\* signing method, and media.find(item => item.sha256 === sha256)
deleteMediaProceeds(confirmed, signingMethod, found) ==
    confirmed /\ signingMethod /\ found

\* deleteMedia(sha256), lines 94-132, from a delete button of the grid
deleteMedia ==
    /\ grid.mounted
    /\ View(cache) = "grid"
    /\ \E h \in Hashes, confirmed \in BOOLEAN, signingMethod \in BOOLEAN :
        LET list == grid.userServerList
            hasServers == serversConfigured(list)
            log == deleteMediaCalls(hasServers, "pending")
            removed == removeMedia(cache, h)
        IN  /\ \A p \in grid.pending : p.hash # h
            /\ IF ~deleteMediaProceeds(confirmed, signingMethod,
                                       h \in cache.media)
               THEN /\ cache' = cache
                    /\ grid' = [grid EXCEPT
                                  !.last = [NoGridCall EXCEPT
                                      !.op = "deleteMedia",
                                      !.hash = h,
                                      !.outcome = "returned",
                                      !.confirmed = confirmed,
                                      !.signingMethod = signingMethod]]
               ELSE /\ cache' = afterDelete(removed, log, list)
                    /\ grid' = [grid EXCEPT
                          !.pending = IF hasServers
                              THEN @ \cup {[hash |-> h, list |-> list]}
                              ELSE @,
                          !.last = [NoGridCall EXCEPT
                              !.op = "deleteMedia",
                              !.hash = h,
                              !.log = log,
                              !.outcome = IF hasServers THEN "pending"
                                          ELSE "failed",
                              !.fetch = fetchOfDelete(removed, log, list),
                              !.confirmed = confirmed,
                              !.signingMethod = signingMethod]]
    /\ UNCHANGED <<serviceVars, moreVars, remote, form>>

\* the awaited deleteBlobWithFallback of a deleteMedia call returns or throws
deleteSettles ==
    /\ \E p \in grid.pending :
       \E answers \in [1..Len(p.list.servers) -> SettleAnswers] :
        LET r == deleteBlobWithFallback(p.list.servers, answers)
            log == deleteMediaCalls(TRUE, r.outcome)
        IN  /\ cache' = afterDelete(cache, log, p.list)
            /\ grid' = [grid EXCEPT
                  !.pending = @ \ {p},
                  !.last = [NoGridCall EXCEPT
                      !.op = "deleteSettles",
                      !.hash = p.hash,
                      !.log = log,
                      !.outcome = IF r.outcome = "ok" THEN "ok" ELSE "failed",
                      !.fetch = fetchOfDelete(cache, log, p.list)]]
    /\ UNCHANGED <<serviceVars, moreVars, remote, form>>

\* openMirrorDialog, lines 148-151, from a mirror button of the grid
openMirrorDialog ==
    /\ grid.mounted
    /\ View(cache) = "grid"
    /\ cache.media # {}
    /\ ~grid.mirrorDialogOpen
    /\ grid' = [grid EXCEPT !.mirrorDialogOpen = TRUE,
                            !.last = [NoGridCall EXCEPT
                                        !.op = "openMirrorDialog"]]
    /\ UNCHANGED <<serviceVars, moreVars, cache, remote, form>>

\* handleMirrorSuccess, lines 159-167: the dialog reports a mirror that
\* succeeded
handleMirrorSuccess ==
    /\ grid.mirrorDialogOpen
    /\ cache' = fetchMedia(cache, grid.userServerList, FALSE, "mirror")
    /\ grid' = [grid EXCEPT
                  !.mirrorDialogOpen = FALSE,
                  !.last = [NoGridCall EXCEPT
                              !.op = "handleMirrorSuccess",
                              !.fetch = FetchDecision(cache,
                                            grid.userServerList, FALSE)]]
    /\ UNCHANGED <<serviceVars, moreVars, remote, form>>

\* the listBlobs round in flight resolves
roundSettles ==
    /\ cache.rounds # <<>>
    /\ \/ \E blobs \in ListResults(cache.rounds[1].fingerprint) :
            cache' = roundSucceeds(cache, blobs)
       \/ cache' = roundFails(cache)
    /\ grid' = [grid EXCEPT !.last = NoGridCall]
    /\ UNCHANGED <<serviceVars, moreVars, remote, form>>

\* the cached entry reaches the age TTL
ttlExpires ==
    /\ cache.state = "READY"
    /\ cache' = [cache EXCEPT !.state = "STALE", !.delivered = {}]
    /\ grid' = [grid EXCEPT !.last = NoGridCall]
    /\ UNCHANGED <<serviceVars, moreVars, remote, form>>

\* ========================================================= ProfileEditForm
\* most attempts the retry wrapper makes
MaxAttempts == 3
\* calls of one kind (uploads of the form, fetches of the profile hook) that
\* may be pending at once
MaxInFlight == 2

FileTypes == {"image/png", "application/pdf"}
\* isImage(type) and the test of line 178
isImage(type) == type = "image/png"
\* validateFile(file): the file carries what the validation finds
validateFile(file) ==
    [valid |-> file.acceptable,
     error |-> IF file.acceptable THEN "" ELSE "File too large"]

Fields == {"picture", "banner"}
\* what removeExifData does: it resolves, it throws ExifRemovalError and
\* the user confirms or cancels, it throws another error
ExifOutcomes == {"ok", "exifErrorProceed", "exifErrorCancel", "otherError"}

\* the userServerList prop of the form
FormLists == GridLists \cup {[null |-> FALSE, servers |-> <<>>]}

\* what a storage server answers to one uploadFile attempt
UploadAnswers == {"ok", "transient", "rejected"}
\* a server that is not the primary accepts every attempt or rejects every
\* attempt
OtherAnswers == {[k \in 1..MaxAttempts |-> a] : a \in {"ok", "rejected"}}

\* retryServerOperation(operation): the operation is tried again after a
\* transient failure, at most MaxAttempts times in all; answers[k] is what
\* attempt k meets.
RECURSIVE retryFrom(_, _)
retryFrom(answers, k) ==
    IF answers[k] = "transient" /\ k < MaxAttempts
    THEN retryFrom(answers, k + 1)
    ELSE k

retryServerOperation(answers) ==
    LET n == retryFrom(answers, 1)
    IN  [attempts |-> SubSeq(answers, 1, n),
         ok |-> answers[n] = "ok",
         error |-> IF answers[n] = "ok" THEN "" ELSE answers[n]]

\* faulty variant: uploadFile is called directly, once
uploadWithoutRetry(answers) ==
    [attempts |-> <<answers[1]>>,
     ok |-> answers[1] = "ok",
     error |-> IF answers[1] = "ok" THEN "" ELSE answers[1]]

\* lines 223-226: retryServerOperation(() => blossomAPI.uploadFile(...))
uploadWithRetry(answers) == retryServerOperation(answers)

\* faulty variant: the upload goes to the last server of the list
lastServer(list) ==
    IF list.servers = <<>> THEN MalformedUrl
    ELSE list.servers[Len(list.servers)]

\* line 212: userServerList.servers[0] (undefined for an empty array)
primaryServer(list) ==
    IF list.servers = <<>> THEN MalformedUrl ELSE list.servers[1]

\* faulty variant: the result of validateFile is ignored
validationSkipped(file) == TRUE

\* lines 171-174: validation.valid
validationPasses(file) == validateFile(file).valid

ErrNotImage == "Please select an image file"
ErrNoSigning == "No signing method available. Please login again."
ErrCancelled ==
    "Upload cancelled due to privacy concerns. Please choose a different image."
ErrProcess == "Failed to process image"
ErrNoServers == "No Blossom servers configured. Please configure your servers in Settings first."

\* uploadToPrimaryServer, lines 164-221: the calls made up to the upload
\* and the error thrown, if any
uploadToPrimaryServerStart(file, signingMethod, exif, list) ==
    IF ~signingMethod
    THEN [error |-> ErrNoSigning, log |-> <<"getSigningMethod">>]
    ELSE IF ~validationPasses(file)
    THEN [error |-> validateFile(file).error,
          log |-> <<"getSigningMethod", "validateFile">>]
    ELSE LET exifLog == IF isImage(file.type)
                        THEN <<"getSigningMethod", "validateFile",
                               "removeExifData">>
                        ELSE <<"getSigningMethod", "validateFile">>
         IN  IF isImage(file.type) /\ exif = "exifErrorCancel"
             THEN [error |-> ErrCancelled, log |-> exifLog]
             ELSE IF isImage(file.type) /\ exif = "otherError"
             THEN [error |-> ErrProcess, log |-> exifLog]
             ELSE IF ~serversConfigured(list)
             THEN [error |-> ErrNoServers, log |-> exifLog]
             ELSE [error |-> "",
                   log |-> exifLog \o <<"createBlossomAPI",
                                        "retryServerOperation">>]

\* the inputs of one handleImageUpload call; an input the call does not
\* read has one value
UploadInputs ==
    {s \in [field : Fields,
            file : [type : FileTypes, acceptable : BOOLEAN],
            signingMethod : BOOLEAN,
            exif : ExifOutcomes] :
        /\ ~isImage(s.file.type) =>
              s.file.acceptable /\ s.signingMethod /\ s.exif = "ok"
        /\ ~s.signingMethod => s.file.acceptable /\ s.exif = "ok"
        /\ ~s.file.acceptable => s.exif = "ok"}

NoUpload ==
    [op |-> "none", field |-> "picture",
     file |-> [type |-> "image/png", acceptable |-> TRUE],
     signingMethod |-> TRUE, exif |-> "ok", log |-> <<>>, outcome |-> "",
     error |-> "", calls |-> <<>>, otherAccepts |-> TRUE,
     previous |-> ""]

\* ProfileEditForm before it is mounted
NoForm ==
    [mounted |-> FALSE, userServerList |-> NoServerList,
     isUploading |-> FALSE,
     formData |-> [f \in Fields |-> ""],
     validationErrors |-> [f \in Fields |-> FALSE],
     inFlight |-> 0, last |-> NoUpload]

\* faulty variant: the file inputs stay enabled during an upload
fileInputAlwaysEnabled(f) == FALSE

\* disabled={isUploading} of the picture and the banner input, lines 374, 444
fileInputDisabled(f) == f.isUploading

mountProfileEditForm ==
    /\ ~form.mounted
    /\ \E list \in FormLists :
          form' = [form EXCEPT !.mounted = TRUE, !.userServerList = list]
    /\ UNCHANGED <<serviceVars, moreVars, cache, grid,
                   remote>>

\* handleImageUpload(file, field), lines 230-272, up to the awaited upload;
\* the file inputs are disabled while isUploading (lines 374, 444)
handleImageUpload ==
    /\ form.mounted
    /\ ~fileInputDisabled(form)
    /\ form.inFlight < MaxInFlight
    /\ \E s \in UploadInputs :
        LET list == form.userServerList
            r == uploadToPrimaryServerStart(s.file, s.signingMethod, s.exif,
                                            list)
            call0 == [NoUpload EXCEPT
                        !.op = "handleImageUpload", !.field = s.field,
                        !.file = s.file, !.signingMethod = s.signingMethod,
                        !.exif = s.exif,
                        !.previous = form.formData[s.field]]
        IN  IF ~isImage(s.file.type)
            THEN form' = [form EXCEPT
                    !.validationErrors[s.field] = TRUE,
                    !.last = [call0 EXCEPT !.outcome = "error",
                                           !.error = ErrNotImage]]
            ELSE IF r.error # ""
            THEN form' = [form EXCEPT
                    !.validationErrors[s.field] = TRUE,
                    !.last = [call0 EXCEPT !.outcome = "error",
                                           !.error = r.error,
                                           !.log = r.log]]
            ELSE form' = [form EXCEPT
                    !.isUploading = TRUE,
                    !.inFlight = @ + 1,
                    !.last = [call0 EXCEPT !.outcome = "pending",
                                           !.log = r.log]]
    /\ UNCHANGED <<serviceVars, moreVars, cache, grid,
                   remote>>

\* the awaited retryServerOperation(() => blossomAPI.uploadFile(...))
\* settles, lines 223-271
uploadSettles ==
    /\ form.inFlight > 0
    /\ \E answers \in [1..MaxAttempts -> UploadAnswers],
          others \in OtherAnswers :
        LET list == form.userServerList
            target == primaryServer(list)
            met == IF target = list.servers[1] THEN answers ELSE others
            r == uploadWithRetry(met)
            field == form.last.field
        IN  form' = [form EXCEPT
                !.isUploading = FALSE,
                !.inFlight = @ - 1,
                !.formData[field] = IF r.ok THEN target.host ELSE @,
                !.validationErrors[field] = ~r.ok,
                !.last = [@ EXCEPT
                    !.op = "uploadSettles",
                    !.outcome = IF r.ok THEN "ok" ELSE "error",
                    !.error = r.error,
                    !.otherAccepts = others[1] = "ok",
                    !.calls = [k \in 1..Len(r.attempts) |->
                                  [server |-> target,
                                   answer |-> r.attempts[k]]]]]
    /\ UNCHANGED <<serviceVars, moreVars, cache, grid,
                   remote>>

\* ================================================================ listBlobs
\* what one server answers to the list request: its hashes, or a failure
ListAnswers ==
    {[ok |-> TRUE, reason |-> "", hashes |-> H] : H \in SUBSET Hashes}
    \cup {[ok |-> FALSE, reason |-> r, hashes |-> {}] :
             r \in {"error", "timeout"}}

\* faulty variant: a hash already listed gets a second entry
addBlobNoMerge(blobs, h, server) ==
    Append(blobs, [hash |-> h, availableServers |-> {server}])

\* one hash reported by one server enters the merged list: the server joins
\* the entry of the hash, or a new entry is made
addBlob(blobs, h, server) ==
    IF \E i \in 1..Len(blobs) : blobs[i].hash = h
    THEN [i \in 1..Len(blobs) |->
             IF blobs[i].hash = h
             THEN [blobs[i] EXCEPT !.availableServers = @ \cup {server}]
             ELSE blobs[i]]
    ELSE Append(blobs, [hash |-> h, availableServers |-> {server}])

RECURSIVE mergeServer(_, _, _)
mergeServer(blobs, hashes, server) ==
    IF hashes = {}
    THEN blobs
    ELSE LET h == CHOOSE x \in hashes : TRUE
         IN  mergeServer(addBlob(blobs, h, server), hashes \ {h}, server)

\* the answers of servers i.. merged into blobs; a failed server adds nothing
RECURSIVE mergeFrom(_, _, _, _)
mergeFrom(servers, answers, i, blobs) ==
    IF i > Len(servers)
    THEN blobs
    ELSE mergeFrom(servers, answers, i + 1,
                   IF answers[i].ok
                   THEN mergeServer(blobs, answers[i].hashes, servers[i])
                   ELSE blobs)

\* faulty variant: one failed server fails the call
listOutcomeFailFast(answers) ==
    IF \E i \in 1..Len(answers) : ~answers[i].ok
    THEN "TotalFailure"
    ELSE "ok"

\* the call fails only when no server answered
listOutcome(answers) ==
    IF \A i \in 1..Len(answers) : ~answers[i].ok
    THEN "TotalFailure"
    ELSE "ok"

\* listBlobs(list): one request per server, all awaited, results merged
listBlobs(servers, answers) ==
    LET outcome == listOutcome(answers)
    IN  [outcome |-> outcome,
         settled |-> Len(answers),
         blobs |-> IF outcome = "ok"
                   THEN mergeFrom(servers, answers, 1, <<>>)
                   ELSE <<>>,
         unreachable |-> {servers[i] : i \in {j \in 1..Len(servers) :
                                                  ~answers[j].ok}}]

NoListing ==
    [called |-> FALSE, servers |-> <<>>, answers |-> <<>>, outcome |-> "",
     settled |-> 0, blobs |-> <<>>, unreachable |-> {}]

\* listBlobs called with a server list
listBlobsCall ==
    /\ ~listing.called
    /\ \E servers \in SeqsOf(SecureUrls, 1, MaxServers) :
       \E answers \in [1..Len(servers) -> ListAnswers] :
        LET r == listBlobs(servers, answers)
        IN  listing' = [called |-> TRUE, servers |-> servers,
                        answers |-> answers, outcome |-> r.outcome,
                        settled |-> r.settled, blobs |-> r.blobs,
                        unreachable |-> r.unreachable]
    /\ UNCHANGED <<serviceVars, cache, grid, remote, form, summary, hook,
                   modal>>

\* ==================================================== redundancy summary
\* most files the cached media hold
MaxFiles == 40
\* bits in the significand of a JavaScript number
MantissaBits == 53

\* a number is held in limbs of LimbBits bits, most significant first
LimbBits == 15
Limbs == 5

\* JavaScript numbers are binary floating point: a positive number is held
\* here as an integer of Limbs limbs with a count of fraction bits, and every
\* operation rounds its exact result to MantissaBits significant bits, ties
\* to even.
RECURSIVE Pow2(_)
Pow2(k) == IF k = 0 THEN 1 ELSE 2 * Pow2(k - 1)

RECURSIVE bitLength(_)
bitLength(v) == IF v = 0 THEN 0 ELSE 1 + bitLength(v \div 2)

\* carries moved up so that every limb but the first is below 2^LimbBits
RECURSIVE carryFrom(_, _, _)
carryFrom(limbs, i, carry) ==
    IF i = 1
    THEN <<limbs[1] + carry>>
    ELSE LET v == limbs[i] + carry
         IN  carryFrom(limbs, i - 1, v \div Pow2(LimbBits))
                 \o <<v % Pow2(LimbBits)>>

normalise(limbs) == carryFrom(limbs, Limbs, 0)

\* the significant bits of a number: its first non-zero limb is the first
\* or the second
significantBits(limbs) ==
    IF limbs[1] > 0
    THEN (Limbs - 1) * LimbBits + bitLength(limbs[1])
    ELSE (Limbs - 2) * LimbBits + bitLength(limbs[2])

\* a number rounded to MantissaBits significant bits, ties to even; inexact
\* says that the number stands for a value slightly above it.  The bits
\* dropped all lie in the last limb.
roundLimbs(limbs, inexact) ==
    LET drop == significantBits(limbs) - MantissaBits
        unit == Pow2(drop)
        low == limbs[Limbs]
        guard == (low \div (unit \div 2)) % 2
        sticky == low % (unit \div 2) # 0 \/ inexact
        lsb == (low \div unit) % 2
        up == guard = 1 /\ (sticky \/ lsb = 1)
    IN  normalise([limbs EXCEPT
            ![Limbs] = (low \div unit) * unit + (IF up THEN unit ELSE 0)])

\* the zeros after the binary point of r / t before its first one (r < t)
RECURSIVE leadingZeros(_, _)
leadingZeros(r, t) ==
    IF 2 * r >= t THEN 0 ELSE 1 + leadingZeros(2 * r, t)

\* the next k limbs of r / t (r < t)
RECURSIVE quotientLimbs(_, _, _)
quotientLimbs(r, t, k) ==
    IF k = 0 THEN <<>>
    ELSE <<(r * Pow2(LimbBits)) \div t>>
             \o quotientLimbs((r * Pow2(LimbBits)) % t, t, k - 1)

RECURSIVE remainderAfter(_, _, _)
remainderAfter(r, t, k) ==
    IF k = 0 THEN r
    ELSE remainderAfter((r * Pow2(LimbBits)) % t, t, k - 1)

\* n / t as JavaScript computes it, for 0 < n < t
divide(n, t) ==
    LET z == leadingZeros(n, t)
        r == n * Pow2(z)
        exact == <<0>> \o quotientLimbs(r, t, Limbs - 1)
        rest == remainderAfter(r, t, Limbs - 1)
    IN  [limbs |-> roundLimbs(exact, rest # 0),
         fraction |-> z + (Limbs - 1) * LimbBits]

\* x * 100 as JavaScript computes it
timesHundred(x) ==
    [limbs |-> roundLimbs(normalise([i \in 1..Limbs |-> 100 * x.limbs[i]]),
                          FALSE),
     fraction |-> x.fraction]

\* Math.round(x): the nearest integer, a tie goes up; x is below 128 and
\* its binary point lies in the first limb or just under it
MathRound(x) ==
    LET z == x.fraction - (Limbs - 1) * LimbBits
        whole == x.limbs[1] \div Pow2(z)
        half == IF z = 0
                THEN (x.limbs[2] \div Pow2(LimbBits - 1)) % 2
                ELSE (x.limbs[1] \div Pow2(z - 1)) % 2
    IN  whole + half

\* line 311: totalFiles > 0 ? Math.round((n / totalFiles) * 100) : 0
redundancyPercentage(n, total) ==
    IF total > 0
    THEN IF n = 0 THEN 0
         ELSE IF n = total THEN 100
         ELSE MathRound(timesHundred(divide(n, total)))
    ELSE 0

\* the availableServers of a media item: undefined, or a list of entries
\* with a success flag
ItemKinds ==
    {[defined |-> FALSE, entries |-> <<>>],
     [defined |-> TRUE, entries |-> <<TRUE, FALSE>>],
     [defined |-> TRUE, entries |-> <<TRUE, FALSE, TRUE>>]}

\* lines 308-310: availableServers && filter(s => s.success).length > 1
hasMultipleServers(item) ==
    /\ item.defined
    /\ Cardinality({i \in 1..Len(item.entries) : item.entries[i]}) > 1

NoSummary ==
    [rendered |-> FALSE, list |-> NoServerList,
     media |-> [k \in ItemKinds |-> 0], shown |-> FALSE, percentage |-> 0]

RECURSIVE countItems(_, _)
countItems(media, kinds) ==
    IF kinds = {} THEN 0
    ELSE LET k == CHOOSE x \in kinds : TRUE
         IN  media[k] + countItems(media, kinds \ {k})

\* the summary line of lines 304-316, for media that hold media[k] items
\* of kind k
renderSummary ==
    /\ ~summary.rendered
    /\ \E list \in GridLists, media \in [ItemKinds -> 0..MaxFiles] :
        LET totalFiles == countItems(media, ItemKinds)
            filesWithMultipleServers ==
                countItems(media, {k \in ItemKinds : hasMultipleServers(k)})
        IN  /\ totalFiles <= MaxFiles
            /\ summary' =
                 [rendered |-> TRUE, list |-> list, media |-> media,
                  shown |-> /\ ~list.null
                            /\ Len(list.servers) > 1
                            /\ totalFiles > 0,
                  percentage |-> redundancyPercentage(
                                     filesWithMultipleServers, totalFiles)]
    /\ UNCHANGED <<serviceVars, cache, grid, remote, form, listing, hook,
                   modal>>

\* ============================================ useUserProfile, ProfileModal
\* profile === null
NoProfile == [null |-> TRUE, pubkey |-> ""]

\* useUserProfile lines 39-42 as constructed; error "" is null, inFlight the
\* pubkeys of the fetchUserProfile calls that await queryRelays in the order
\* they were issued, issued the pubkey of the latest of all calls, save the
\* pubkey of the saveUserProfile call that awaits the signer or the relays
NoHook ==
    [profile |-> NoProfile, loading |-> FALSE, saving |-> FALSE,
     error |-> "", inFlight |-> <<>>, issued |-> "", save |-> ""]

\* ProfileModal: its props and line 98
NoModal ==
    [isOpen |-> FALSE, pubkey |-> "", isOwnProfile |-> FALSE,
     isEditing |-> FALSE]

\* what queryRelays and JSON.parse do to one fetchUserProfile call
FetchAnswers == {"empty", "profile", "unparsable", "threw"}

ErrParse == "Failed to parse profile data"
ErrFetch == "Failed to fetch profile"
ErrSave == "Failed to save profile"

\* fetchUserProfile lines 45-46, up to the await of line 57
fetchUserProfileStart(h, pubkey) ==
    [h EXCEPT !.loading = TRUE, !.error = "",
              !.inFlight = Append(@, pubkey), !.issued = pubkey]

\* the sequence without its i-th element
without(seq, i) ==
    [j \in 1..(Len(seq) - 1) |-> IF j < i THEN seq[j] ELSE seq[j + 1]]

\* fetchUserProfile lines 59-123, after the await: the i-th pending call
fetchUserProfileEnd(h, i, answer) ==
    LET pubkey == h.inFlight[i]
        found == [null |-> FALSE, pubkey |-> pubkey]
    IN  [h EXCEPT
           !.profile = IF answer \in {"profile", "unparsable"} THEN found
                       ELSE NoProfile,
           !.error = IF answer = "unparsable" THEN ErrParse
                     ELSE IF answer = "threw" THEN ErrFetch
                     ELSE @,
           !.loading = FALSE,
           !.inFlight = without(@, i)]

\* saveUserProfile lines 131-132, up to the await of line 163
saveUserProfileStart(h, pubkey) ==
    [h EXCEPT !.saving = TRUE, !.error = "", !.save = pubkey]

\* saveUserProfile lines 163-187, after the awaits
saveUserProfileEnd(h, ok) ==
    [h EXCEPT
       !.profile = IF ok THEN [null |-> FALSE, pubkey |-> h.save] ELSE @,
       !.error = IF ok THEN @ ELSE ErrSave,
       !.saving = FALSE,
       !.save = ""]

\* the panels of ProfileModal, lines 148-358
Panels(h, m) ==
    LET hasProfile == ~h.profile.null
        isLoading == h.loading
        hasError == h.error # ""
        editing == m.isEditing
    IN  {panel \in {"loading", "error", "profile", "noProfile",
                    "createForm", "editForm"} :
            \/ panel = "loading" /\ isLoading
            \/ panel = "error" /\ hasError /\ ~isLoading
            \/ panel = "profile" /\ hasProfile /\ ~isLoading /\ ~editing
            \/ panel = "noProfile"
                   /\ ~hasProfile /\ ~isLoading /\ ~hasError /\ ~editing
            \/ panel = "createForm"
                   /\ ~hasProfile /\ ~isLoading /\ ~hasError /\ editing
            \/ panel = "editForm" /\ hasProfile /\ ~isLoading /\ editing}

FormPanels == {"createForm", "editForm"}

\* the modal is opened, or its pubkey changes while it is open: the effect
\* of lines 100-105
openProfile ==
    /\ Len(hook.inFlight) < MaxInFlight
    /\ \E pubkey \in Pubkeys, isOwnProfile \in BOOLEAN :
        /\ ~modal.isOpen \/ pubkey # modal.pubkey
        /\ hook' = fetchUserProfileStart(hook, pubkey)
        /\ modal' = [isOpen |-> TRUE, pubkey |-> pubkey,
                     isOwnProfile |-> isOwnProfile, isEditing |-> FALSE]
    /\ UNCHANGED <<serviceVars, cache, grid, remote, form, listing, summary>>

\* onClose: the effect of lines 100-105 does nothing
closeProfile ==
    /\ modal.isOpen
    /\ modal' = [modal EXCEPT !.isOpen = FALSE]
    /\ UNCHANGED <<serviceVars, cache, grid, remote, form, listing, summary,
                   hook>>

\* the Try again button, line 161
tryAgain ==
    /\ modal.isOpen
    /\ "error" \in Panels(hook, modal)
    /\ Len(hook.inFlight) < MaxInFlight
    /\ hook' = fetchUserProfileStart(hook, modal.pubkey)
    /\ UNCHANGED <<serviceVars, cache, grid, remote, form, listing, summary,
                   modal>>

\* the awaited queryRelays of a fetchUserProfile call returns or throws
fetchSettles ==
    /\ \E i \in 1..Len(hook.inFlight), answer \in FetchAnswers :
        hook' = fetchUserProfileEnd(hook, i, answer)
    /\ UNCHANGED <<serviceVars, cache, grid, remote, form, listing, summary,
                   modal>>

\* handleEditProfile, lines 124-126 and 273-276, and the Create Profile
\* button, lines 300-306
handleEditProfile ==
    /\ modal.isOpen
    /\ modal.isOwnProfile
    /\ Panels(hook, modal) \cap {"profile", "noProfile"} # {}
    /\ modal' = [modal EXCEPT !.isEditing = TRUE]
    /\ UNCHANGED <<serviceVars, cache, grid, remote, form, listing, summary,
                   hook>>

\* onCancel of the form, lines 332 and 352
cancelEdit ==
    /\ modal.isOpen
    /\ Panels(hook, modal) \cap FormPanels # {}
    /\ ~hook.saving
    /\ modal' = [modal EXCEPT !.isEditing = FALSE]
    /\ UNCHANGED <<serviceVars, cache, grid, remote, form, listing, summary,
                   hook>>

\* handleSaveProfile, lines 107-114, from the Save Profile button of the form
handleSaveProfile ==
    /\ modal.isOpen
    /\ Panels(hook, modal) \cap FormPanels # {}
    /\ ~hook.saving
    /\ \E signingMethod \in BOOLEAN :
        hook' = IF signingMethod
                THEN saveUserProfileStart(hook, modal.pubkey)
                ELSE hook
    /\ UNCHANGED <<serviceVars, cache, grid, remote, form, listing, summary,
                   modal>>

\* the awaits of saveUserProfile return or throw; handleSaveProfile, lines
\* 114-121, goes on
saveSettles ==
    /\ hook.saving
    /\ \E ok \in BOOLEAN :
        /\ hook' = saveUserProfileEnd(hook, ok)
        /\ modal' = [modal EXCEPT !.isEditing = IF ok THEN FALSE ELSE @]
    /\ UNCHANGED <<serviceVars, cache, grid, remote, form, listing, summary>>


\* The service as constructed: no custom publish relays, no call made yet.
InitService ==
    /\ call = NoCall
    /\ _publishRelayUrls = <<>>
    /\ _defaultRelayUrls = DefaultRelayUrls
    /\ resolve = NoResolve
    /\ relayCall = NoRelayCall
    /\ cache = NoCache
    /\ grid = NoGrid
    /\ remote = NoRemote
    /\ form = NoForm
    /\ listing = NoListing
    /\ summary = NoSummary
    /\ hook = NoHook
    /\ modal = NoModal

\* The application holds the list `servers` of `pubkey`, created at `now`.
InitList(servers, pubkey, now) ==
    /\ userServerList = 1
    /\ heap = [r \in 1..2 |->
                 IF r = 1
                 THEN [servers |-> servers, pubkey |-> pubkey,
                       created_at |-> now]
                 ELSE NoList]

\* The application holds a list of a user's distinct valid servers; the
\* service is freshly constructed.
Init ==
    /\ \E servers \in SeqsOf(SecureUrls, 1, MaxServers), pubkey \in Pubkeys,
          now \in Times :
          Distinct(servers) /\ InitList(servers, pubkey, now)
    /\ InitService

\* The lookups and the relay choices do not read the servers of the list:
\* one list per owner stands for all.
InitOneList ==
    /\ \E pubkey \in Pubkeys : InitList(<<SecureUrl("a")>>, pubkey, 1)
    /\ InitService

Next == addServer \/ removeServer \/ reorderServers

Spec == Init /\ [][Next]_vars

NextResolve == getUserServerList

SpecResolve == InitOneList /\ [][NextResolve]_vars

NextRelays ==
    setPublishRelaysFromUserList \/ setPublishRelayUrls \/ setDefaultRelayUrls

SpecRelays == InitOneList /\ [][NextRelays]_vars

\* the components of the user interface start from one list of one user
InitUi == InitService /\ InitList(<<SecureUrl("a")>>, "pk1", 1)

\* the relay sets are configured between the publications of the list
NextRelayPublish ==
    \/ setPublishRelaysFromUserList \/ setPublishRelayUrls
    \/ setDefaultRelayUrls \/ publishServerList

SpecRelayPublish == InitOneList /\ [][NextRelayPublish]_vars

NextProfile ==
    \/ openProfile \/ closeProfile \/ tryAgain \/ fetchSettles
    \/ handleEditProfile \/ cancelEdit \/ handleSaveProfile \/ saveSettles

SpecProfile == InitUi /\ [][NextProfile]_vars

NextPublish ==
    \/ addServer \/ removeServer \/ reorderServers
    \/ createServerList \/ publishServerList

SpecPublish == InitOneList /\ [][NextPublish]_vars

NextMedia ==
    \/ mountMediaGrid \/ serverListChanged \/ loadMedia
    \/ deleteMedia \/ deleteSettles
    \/ openMirrorDialog \/ handleMirrorSuccess
    \/ roundSettles \/ ttlExpires

SpecMedia == InitUi /\ [][NextMedia]_vars

NextUpload == mountProfileEditForm \/ handleImageUpload \/ uploadSettles

SpecUpload == InitUi /\ [][NextUpload]_vars

NextDelete == deleteWithFallback

NextSummary == renderSummary

SpecSummary == InitUi /\ [][NextSummary]_vars

NextList == listBlobsCall

SpecList == InitUi /\ [][NextList]_vars

SpecDelete == InitUi /\ [][NextDelete]_vars

\* ===================================================== properties under Spec
\* the indices of newOrder whose URL reorderServers must keep
KeptIndices(newOrder, servers) ==
    {i \in 1..Len(newOrder) :
        newOrder[i] \in Range(servers) /\ IsValidUrl(newOrder[i])}

\* s is the subsequence of newOrder at the index set I, in newOrder's order
IsSubsequenceAt(s, newOrder, I) ==
    /\ Len(s) = Cardinality(I)
    /\ \A i \in I : s[Cardinality({j \in I : j <= i})] = newOrder[i]

\* the URLs of an event's server tags
EventServers(event) == [i \in 1..Len(event.tags) |-> event.tags[i][2]]

\* C1: reorderServers(C, L) hands on for publication exactly the subsequence
\* of C made of the valid URLs that are members of L.servers, in C's order;
\* the signed event and the returned list carry that sequence, so no URL
\* absent from L and no invalid URL appears in the result.
C1_ReorderSubmitsFilteredOrder ==
    call.op = "reorderServers" =>
        /\ call.updated
        /\ IsSubsequenceAt(call.submitted, call.order,
                           KeptIndices(call.order, call.before.servers))
        /\ \A url \in Range(call.submitted) :
              url \in Range(call.before.servers) /\ IsValidUrl(url)
        /\ call.event # NoEvent => EventServers(call.event) = call.submitted
        /\ call.outcome = "ok" =>
              heap[call.result].servers = call.submitted

\* a reorder that dropped a URL absent from the list and kept the other
C1_Witness ==
    /\ call.op = "reorderServers"
    /\ call.outcome = "ok"
    /\ Len(call.order) = 2
    /\ call.order[1] \notin Range(call.before.servers)
    /\ call.submitted = <<call.order[2]>>

\* C2: with signing and publishing succeeding, reorderServers completes with
\* a ServerList for every candidate order, also when every element of the
\* order is dropped.
C2_ReorderNeverFailsOnContent ==
    (call.op = "reorderServers" /\ call.env = "ok") => call.outcome = "ok"

\* C3: starting from pairwise distinct servers, the list the application
\* holds never contains a URL twice.
C3_ServersUnique == Distinct(heap[userServerList].servers)

C5_RemoveLastServerSucceeds ==
    (/\ call.op = "removeServer"
     /\ call.before.servers = <<call.url>>
     /\ call.env = "ok")
        => /\ call.outcome = "ok"
           /\ heap[call.result].servers = <<>>

\* C10: a mutation never modifies the list object passed in, whether it
\* succeeds or fails; a successful call returns another object with the same
\* owner.
C10_InputListUnchanged ==
    call.op # "none" =>
        /\ heap[call.input] = call.before
        /\ call.outcome = "ok" =>
              /\ call.result # call.input
              /\ heap[call.result].pubkey = call.before.pubkey

\* a successful addServer: the old object still holds the shorter list
C10_Witness ==
    /\ call.op = "addServer"
    /\ call.outcome = "ok"
    /\ Len(heap[call.result].servers) = Len(heap[call.input].servers) + 1

\* ============================================== properties under SpecResolve
\* the position of a step in the call's log, 0 when it was not taken
StepAt(log, step) ==
    IF \E i \in 1..Len(log) : log[i] = step
    THEN CHOOSE i \in 1..Len(log) : log[i] = step
    ELSE 0

\* C6: the default relays are queried first; the owner's relay list is
\* fetched and queried only if that query returned no event; when it
\* returned an event, or the owner has no relay list, there is no second
\* discovery query.
C6_TwoPhasesSequenced ==
    resolve.op = "getUserServerList" =>
        /\ resolve.log[1] = "queryDefault"
        /\ resolve.queried[1] = _defaultRelayUrls
        /\ StepAt(resolve.log, "getUserRelayList") \in {0, 2}
        /\ StepAt(resolve.log, "getUserRelayList") = 2 =>
              ~resolve.first.threw /\ resolve.first.events = <<>>
        /\ StepAt(resolve.log, "queryUser") \in {0, 3}
        /\ StepAt(resolve.log, "queryUser") = 3 =>
              /\ StepAt(resolve.log, "getUserRelayList") = 2
              /\ resolve.relay = "found"
              /\ Len(resolve.queried) = 2
        /\ (resolve.first.events # <<>> \/ resolve.relay # "found") =>
              /\ StepAt(resolve.log, "queryUser") = 0
              /\ Len(resolve.queried) = 1

\* both phases ran and the second found the list
C6_Witness ==
    /\ resolve.log = <<"queryDefault", "getUserRelayList", "queryUser", "parse">>
    /\ resolve.returned = "list"

\* C7: when discovery returned events, the list returned is the one parsed
\* from an event no other returned event is newer than.
C7_NewestEventChosen ==
    (/\ resolve.op = "getUserServerList"
     /\ resolve.events # <<>>
     /\ ~resolve.threw)
        => /\ resolve.returned = "list"
           /\ \E i \in 1..Len(resolve.events) :
                 /\ resolve.chosen = resolve.events[i]
                 /\ resolve.list = parseServerListEvent(resolve.events[i])
           /\ \A i \in 1..Len(resolve.events) :
                 resolve.events[i].created_at <= resolve.list.created_at

\* the newest event came back last, after an older one, and was chosen
C7_Witness ==
    /\ resolve.returned = "list"
    /\ Len(resolve.events) = 2
    /\ resolve.events[1].created_at < resolve.events[2].created_at
    /\ resolve.list.created_at = resolve.events[2].created_at

\* C8: getUserServerList never raises, and returns null when no phase
\* found an event, when the owner has no relay list, and when a query, the
\* relay-list lookup or the parse throws.
C8_FailuresReturnNull ==
    resolve.op = "getUserServerList" =>
        /\ resolve.returned \in {"null", "list"}
        /\ (resolve.threw \/ resolve.events = <<>>) =>
              resolve.returned = "null" /\ resolve.list = NoList

\* the second query timed out
C8_Witness ==
    /\ resolve.threw
    /\ resolve.log = <<"queryDefault", "getUserRelayList", "queryUser">>
    /\ resolve.returned = "null"

\* =============================================== properties under SpecRelays
\* the relays of the owner's list whose write flag has the given values
RelaysFlagged(relays, flags) ==
    {relays[i].url : i \in {j \in 1..Len(relays) : relays[j].write \in flags}}

PublishTargets == Range(publishRelayUrls(_publishRelayUrls, _defaultRelayUrls))

\* C9 as stated: after setPublishRelaysFromUserList returned true, the
\* publish targets are exactly the relays flagged writable; a relay that is
\* read-only or carries no write flag is no target.
C9_TargetsAreFlaggedWritable ==
    (relayCall.op = "setPublishRelaysFromUserList" /\ relayCall.returned) =>
        PublishTargets = RelaysFlagged(relayCall.answer.relays, {"true"})

\* C9 amended: after setPublishRelaysFromUserList returned true, the publish
\* targets are exactly the relays of the owner's list whose write flag is
\* not false (true, or not there), in the list's order; a relay flagged
\* write = false is no target.
C9_TargetsAreNotReadOnly ==
    (relayCall.op = "setPublishRelaysFromUserList" /\ relayCall.returned) =>
        /\ PublishTargets
              = RelaysFlagged(relayCall.answer.relays, {"true", "undefined"})
        /\ PublishTargets
              \cap RelaysFlagged(relayCall.answer.relays, {"false"}) = {}
        /\ PublishTargets \subseteq Range(RelayKeys(relayCall.answer.relays))
        /\ Distinct(_publishRelayUrls)

\* a list with a read-only relay and a relay without a write flag: the
\* second became the only publish target
C9_Witness ==
    /\ relayCall.op = "setPublishRelaysFromUserList"
    /\ relayCall.returned
    /\ Len(relayCall.answer.relays) = 2
    /\ relayCall.answer.relays[1].write = "false"
    /\ relayCall.answer.relays[2].write = "undefined"
    /\ _publishRelayUrls = <<relayCall.answer.relays[2].url>>

\* ============================================== properties under SpecPublish
\* how often a step occurs in a call's log
Occurrences(log, step) == Cardinality({i \in 1..Len(log) : log[i] = step})

\* C11: a server-list mutation (create, add, remove, reorder, publish)
\* invokes the Signer at most once; when signing fails the error reaches
\* the caller, signing is not tried again and nothing is published; an event
\* is published only after it was signed.
C11_SignOnceThenPublish ==
    call.op # "none" =>
        /\ Occurrences(call.log, "sign") <= 1
        /\ Occurrences(call.log, "publish") <= 1
        /\ \A i \in 1..Len(call.log) :
              call.log[i] = "publish" =>
                  /\ \E j \in 1..(i - 1) : call.log[j] = "sign"
                  /\ call.event.sig
        /\ (call.env = "signFails" /\ Occurrences(call.log, "sign") > 0) =>
              /\ call.outcome = "error"
              /\ call.error = "sign failed"
              /\ Occurrences(call.log, "publish") = 0
              /\ call.publishedTo = <<>>
        /\ call.publishedTo # <<>> => Occurrences(call.log, "publish") = 1

\* the Signer rejected the event of a removeServer call
C11_Witness ==
    /\ call.op = "removeServer"
    /\ call.env = "signFails"
    /\ call.log = <<"sign">>
    /\ call.outcome = "error"

C14_OneRoundInFlight ==
    /\ Len(cache.rounds) <= 1
    /\ loading(cache) <=> Len(cache.rounds) = 1
    /\ grid.last.fetch = "attach" =>
          /\ Len(cache.rounds) = 1
          /\ Cardinality(cache.rounds[1].waiters) >= 1
    /\ \A d1, d2 \in cache.delivered :
          d1.ok = d2.ok /\ d1.blobs = d2.blobs
    /\ \A d \in cache.delivered : d.ok => d.blobs = cache.media

\* two callers shared one round and received its entry
C14_Witness ==
    /\ Cardinality(cache.delivered) >= 2
    /\ \E d \in cache.delivered : d.ok /\ d.blobs # {}

\* C15: after a failed refresh the blobs loaded before stay visible to the
\* user: when the cache holds a non-empty set and an attached error, the
\* view shows blobs of that set.
C15_RetainedSetVisible ==
    (cache.state = "STALE" /\ cache.error /\ cache.media # {}) =>
        ShownMedia(cache) \cap cache.media # {}

\* C16: handleMirrorSuccess leads to a listBlobs round, also when the cache
\* is READY with the fingerprint of the current list.
C16_MirrorStartsRound ==
    grid.last.op = "handleMirrorSuccess" =>
        /\ loading(cache)
        /\ grid.last.fetch \in {"start", "attach"}

\* ============================================== properties under SpecDelete
\* C17: deleteBlobWithFallback asks the servers one after the other in the
\* list's order, succeeds exactly when a server confirms, asks no server
\* after the first confirmation, and ends in TotalFailure with one reason
\* per server when every server fails or the list is empty.
C17_SequentialUntilFirstSuccess ==
    remote.called =>
        LET n == Len(remote.contacted)
            confirms == {i \in 1..Len(remote.servers) :
                            remote.answers[i] = "ok"}
        IN  /\ \A i \in 1..n : remote.contacted[i] = i
            /\ n <= Len(remote.servers)
            /\ remote.outcome = "ok" <=> confirms # {}
            /\ remote.outcome # "ok" => remote.outcome = "TotalFailure"
            /\ remote.outcome = "ok" =>
                  /\ n \in confirms
                  /\ \A i \in confirms : n <= i
            /\ remote.outcome = "TotalFailure" =>
                  /\ n = Len(remote.servers)
                  /\ Len(remote.reasons) = n
                  /\ \A i \in 1..n :
                        remote.reasons[i] =
                            [server |-> remote.servers[i],
                             reason |-> remote.answers[i]]

\* the first server failed, the second confirmed
C17_Witness ==
    /\ remote.called
    /\ remote.outcome = "ok"
    /\ remote.contacted = <<1, 2>>

\* ============================================== properties under SpecUpload
\* the calls that reach a storage server or prepare to
NetworkSteps == {"createBlossomAPI", "retryServerOperation"}

\* C18: with a null or empty server list an upload ends in an error and
\* makes no network call: neither createBlossomAPI(...).uploadFile nor the
\* retry wrapper is invoked.
C18_NoServersNoNetwork ==
    LET u == form.last
        list == form.userServerList
    IN  (u.op # "none" /\ (list.null \/ Len(list.servers) = 0)) =>
            /\ u.outcome = "error"
            /\ u.calls = <<>>
            /\ \A i \in 1..Len(u.log) : u.log[i] \notin NetworkSteps
            /\ form.inFlight = 0
            /\ (/\ isImage(u.file.type) /\ u.signingMethod
                /\ u.file.acceptable
                /\ u.exif \in {"ok", "exifErrorProceed"}) =>
                  u.error = ErrNoServers

\* an acceptable image was refused because the list is empty
C18_Witness ==
    /\ form.last.op = "handleImageUpload"
    /\ ~form.userServerList.null
    /\ form.userServerList.servers = <<>>
    /\ form.last.error = ErrNoServers

\* C19: with a non-empty server list the upload succeeds exactly when the
\* primary server servers[0] accepts the file within the retry policy; every
\* attempt goes to servers[0], whatever the other servers would answer.
C19_PrimaryDecides ==
    LET u == form.last
        n == Len(u.calls)
    IN  u.op = "uploadSettles" =>
            /\ n >= 1 /\ n <= MaxAttempts
            /\ \A k \in 1..n :
                  u.calls[k].server = form.userServerList.servers[1]
            /\ \A k \in 1..(n - 1) : u.calls[k].answer = "transient"
            /\ u.outcome = "ok" <=> u.calls[n].answer = "ok"
            /\ u.outcome = "ok" =>
                  form.formData[u.field] = form.userServerList.servers[1].host
            /\ u.outcome # "ok" => form.formData[u.field] = u.previous

\* the primary accepted at the second attempt; the other server of the list
\* would have rejected the file
C19_Witness ==
    /\ form.last.op = "uploadSettles"
    /\ form.last.outcome = "ok"
    /\ Len(form.last.calls) = 2
    /\ Len(form.userServerList.servers) = 2
    /\ ~form.last.otherAccepts

\* C20: a file that is not an image, a file validateFile rejects, or a
\* missing signing method ends the upload with an error recorded for the
\* field and no call to the storage server, and nothing is tried again.
C20_InvalidFileNoNetwork ==
    LET u == form.last
    IN  (/\ u.op # "none"
         /\ \/ ~isImage(u.file.type)
            \/ ~u.file.acceptable
            \/ ~u.signingMethod) =>
            /\ u.outcome = "error"
            /\ u.error # ""
            /\ form.validationErrors[u.field]
            /\ u.calls = <<>>
            /\ \A i \in 1..Len(u.log) : u.log[i] \notin NetworkSteps
            /\ form.inFlight = 0
            /\ ~form.isUploading

\* validateFile rejected a file although a server is configured
C20_Witness ==
    /\ form.last.op = "handleImageUpload"
    /\ ~form.last.file.acceptable
    /\ form.last.error = "File too large"
    /\ Len(form.userServerList.servers) = 2

\* C21: the retry wrapper tries again only after a transient failure: two
\* transient failures and a success make exactly 3 attempts and a success;
\* a failure that is not transient ends the operation at that attempt (one
\* attempt when it is the first); there are never more than MaxAttempts
\* attempts, and when they are used up the last error is surfaced.
C21_RetryAttemptCounts ==
    LET u == form.last
        n == Len(u.calls)
    IN  u.op = "uploadSettles" =>
            /\ n \in 1..MaxAttempts
            /\ \A k \in 1..n :
                  u.calls[k].answer # "transient" => k = n
            /\ u.calls[n].answer = "transient" =>
                  n = MaxAttempts /\ u.outcome = "error"
            /\ u.calls[n].answer = "ok" => u.outcome = "ok" /\ u.error = ""
            /\ u.calls[n].answer # "ok" =>
                  u.outcome = "error" /\ u.error = u.calls[n].answer

\* two transient failures, then the upload succeeded at the third attempt
C21_Witness ==
    /\ form.last.op = "uploadSettles"
    /\ Len(form.last.calls) = 3
    /\ form.last.calls[1].answer = "transient"
    /\ form.last.calls[2].answer = "transient"
    /\ form.last.calls[3].answer = "ok"
    /\ form.last.outcome = "ok"

\* ================================================ properties under SpecList
\* the servers that answered and hold hash h
Reporting(h) ==
    {listing.servers[i] : i \in {j \in 1..Len(listing.servers) :
        listing.answers[j].ok /\ h \in listing.answers[j].hashes}}

\* C22: listBlobs holds exactly one Blob for every hash returned by a
\* server that answered, with exactly the servers that returned the hash in
\* this call as its availability; a server that failed or timed out
\* contributes no entry and no availability.
C22_MergedByHash ==
    (listing.called /\ listing.outcome = "ok") =>
        /\ \A h \in Hashes :
              Cardinality({i \in 1..Len(listing.blobs) :
                              listing.blobs[i].hash = h})
                  = IF Reporting(h) = {} THEN 0 ELSE 1
        /\ \A i \in 1..Len(listing.blobs) :
              listing.blobs[i].availableServers
                  = Reporting(listing.blobs[i].hash)

\* two servers returned the same hash and a third hash came from one only
C22_Witness ==
    /\ listing.called
    /\ Len(listing.servers) = 2
    /\ listing.servers[1] # listing.servers[2]
    /\ \E i \in 1..Len(listing.blobs) :
          Cardinality(listing.blobs[i].availableServers) = 2
    /\ Len(listing.blobs) = 2

\* C23: listBlobs awaits every per-server request and fails with
\* TotalFailure exactly when every server failed; when a server answered it
\* succeeds with the partial result and marks each failed server
\* unreachable.
C23_FailsOnlyWhenAllFail ==
    listing.called =>
        LET failed == {i \in 1..Len(listing.servers) : ~listing.answers[i].ok}
        IN  /\ listing.settled = Len(listing.servers)
            /\ listing.outcome = "TotalFailure"
                  <=> failed = 1..Len(listing.servers)
            /\ listing.outcome # "TotalFailure" => listing.outcome = "ok"
            /\ listing.unreachable = {listing.servers[i] : i \in failed}
            /\ listing.outcome = "ok" =>
                  \A i \in 1..Len(listing.servers) :
                      listing.answers[i].ok =>
                          \A h \in listing.answers[i].hashes :
                              \E j \in 1..Len(listing.blobs) :
                                  listing.blobs[j].hash = h

\* one server timed out, the other answered: a partial result
C23_Witness ==
    /\ listing.called
    /\ listing.outcome = "ok"
    /\ Cardinality(listing.unreachable) = 1
    /\ Len(listing.blobs) >= 1

\* ================================================ properties under SpecMedia
\* the cache holds an entry fetched from the servers of some list
HasEntry == cache.state \in {"READY", "STALE"} /\ ~cache.error

\* C24: two lists have the same fingerprint exactly when they hold the same
\* URLs in the same order; so MediaGrid reports the cached data stale for
\* every list that differs from the one the entry was built for, by order
\* alone, by a server added or by a server removed.
C24_FingerprintTellsListsApart ==
    /\ \A l1, l2 \in GridLists :
          fingerprint(l1) = fingerprint(l2) <=> l1.servers = l2.servers
    /\ (grid.mounted /\ HasEntry
        /\ cache.servers # grid.userServerList.servers) =>
            dataIsStale(cache, grid.userServerList)

\* a fresh entry built for [a, b] while the grid holds [b, a]
C24_Witness ==
    /\ grid.mounted
    /\ cache.state = "READY"
    /\ cache.servers = <<SecureUrl("a"), SecureUrl("b")>>
    /\ grid.userServerList.servers = <<SecureUrl("b"), SecureUrl("a")>>
    /\ dataIsStale(cache, grid.userServerList)

\* ============================================= properties under SpecSummary
\* the number of items of the summary's media that satisfy a test
TotalFiles == countItems(summary.media, ItemKinds)
ConfirmedTwice ==
    countItems(summary.media,
               {k \in ItemKinds :
                   k.defined /\ \E i, j \in 1..Len(k.entries) :
                       i # j /\ k.entries[i] /\ k.entries[j]})

\* C25: the redundancy figure is round(100 * n / total), with total the
\* number of cached blobs and n the number of blobs with at least two
\* availability entries whose success flag is true; it is an integer in
\* 0..100.
C25_RedundancyIsRoundedShare ==
    (summary.rendered /\ summary.shown) =>
        /\ summary.percentage \in 0..100
        /\ summary.percentage
              = (200 * ConfirmedTwice + TotalFiles) \div (2 * TotalFiles)

\* C26: a deleteMedia call that the user declines, or that finds no signing
\* method, or whose hash is not among the media of the cache, changes
\* nothing: the cache and the pending remote deletes are as before, and the
\* call has made none of removeMedia, deleteBlobWithFallback and loadMedia
C26_GuardsLeaveStateUntouched ==
    [][(/\ grid'.last.op = "deleteMedia"
        /\ \/ ~grid'.last.confirmed
           \/ ~grid'.last.signingMethod
           \/ grid'.last.hash \notin cache.media)
       => /\ cache' = cache
          /\ grid'.pending = grid.pending
          /\ remote' = remote
          /\ grid'.last.log = <<>>
          /\ grid'.last.fetch = "none"]_vars

\* a confirmed call with a signing method for a hash the cache does not hold
\* has returned while the cache holds other media
C26_Witness ==
    /\ grid.last.op = "deleteMedia"
    /\ grid.last.outcome = "returned"
    /\ grid.last.confirmed
    /\ grid.last.signingMethod
    /\ grid.last.hash \notin cache.media
    /\ cache.media # {}

\* C27: a publication goes to the custom publish set when that set is not
\* empty and to the default set otherwise, so to some relay whenever the
\* default set is not empty; setPublishRelaysFromUserList changes the
\* publish set only when it returns true, and returns false without a change
\* when the lookup fails, finds no relay list, or finds no relay that is not
\* flagged write = false
C27_PublishRelaysNeverEmpty ==
    [][/\ (/\ relayCall' = relayCall
           /\ call'.op = "publishServerList"
           /\ Len(call'.log) = 2)
          => /\ call'.publishedTo = IF _publishRelayUrls # <<>>
                                    THEN _publishRelayUrls
                                    ELSE _defaultRelayUrls
             /\ _defaultRelayUrls # <<>> => call'.publishedTo # <<>>
       /\ (/\ call' = call
           /\ relayCall'.op = "setPublishRelaysFromUserList")
          => /\ _publishRelayUrls' # _publishRelayUrls
                    => relayCall'.returned
             /\ (\/ relayCall'.answer.threw
                 \/ ~relayCall'.answer.found
                 \/ RelaysFlagged(relayCall'.answer.relays,
                                  {"true", "undefined"}) = {})
                    => /\ ~relayCall'.returned
                       /\ _publishRelayUrls' = _publishRelayUrls]_vars

\* a list was published to the custom set after a lookup that found a relay
\* list without a writable relay had left that set as it was
C27_Witness ==
    /\ call.op = "publishServerList"
    /\ Len(call.log) = 2
    /\ _publishRelayUrls # <<>>
    /\ call.publishedTo = _publishRelayUrls
    /\ relayCall.op = "setPublishRelaysFromUserList"
    /\ relayCall.answer.found
    /\ ~relayCall.answer.threw
    /\ ~relayCall.returned

\* C28 as stated: once every fetchUserProfile call has settled, a profile
\* that is not null is the one of the pubkey of the call issued last, and
\* loading is true while a call is pending
C28_LatestFetchWins ==
    /\ (hook.inFlight = <<>> /\ ~hook.profile.null /\ hook.save = "")
          => hook.profile.pubkey = hook.issued
    /\ hook.inFlight # <<>> => hook.loading

\* C29 as stated: while isEditing is true and loading is false, the open
\* modal shows the form to create or the form to edit the profile
C29_EditingShowsForm ==
    (modal.isOpen /\ modal.isEditing /\ ~hook.loading)
        => Panels(hook, modal) \cap FormPanels # {}

\* C30: at most one image upload of the form is pending, for the picture
\* and the banner input together; isUploading is true exactly while it is
\* pending; an upload that fails leaves every form field as it was and
\* records a validation error for its own field and for no other
C30_OneUploadAtATime ==
    /\ [](/\ form.inFlight <= 1
          /\ form.isUploading <=> form.inFlight = 1)
    /\ [][(form'.last.outcome = "error" /\ form' # form)
            => /\ form'.formData = form.formData
               /\ form'.formData[form'.last.field] = form'.last.previous
               /\ form'.validationErrors[form'.last.field]
               /\ \A f \in Fields \ {form'.last.field} :
                     form'.validationErrors[f] = form.validationErrors[f]
               /\ ~form'.isUploading]_vars

\* an upload for a field that held the URL of an earlier upload has failed:
\* the field holds that URL, the error is on that field alone
C30_Witness ==
    /\ form.last.op = "uploadSettles"
    /\ form.last.outcome = "error"
    /\ form.last.previous # ""
    /\ form.formData[form.last.field] = form.last.previous
    /\ form.validationErrors[form.last.field]
    /\ \A f \in Fields \ {form.last.field} : ~form.validationErrors[f]
    /\ ~form.isUploading
    /\ form.inFlight = 0

====
